---------------------------- MODULE Spec2Model ----------------------------
(***************************************************************************)
(* A model of the TradingView -> Kraken execution bridge (src/app.py):     *)
(* the /webhook handler, the position record and its snapshot file, the    *)
(* trailing-stop monitor threads, the order sizer and the exchange the     *)
(* handler talks to.                                                       *)
(*                                                                         *)
(* Python floats are modelled as binary floating-point numbers with        *)
(* MantBits bits of significand and round-to-nearest-even, so that every   *)
(* product, quotient, sum and floor is rounded where the code rounds it.   *)
(***************************************************************************)
EXTENDS Integers, Sequences, FiniteSets, TLC

(***************************************************************************)
(* Binary floating point.  A float is [m |-> significand, e |-> exponent], *)
(* standing for m * 2^e, with 2^(MantBits-1) <= |m| < 2^MantBits, or zero. *)
(***************************************************************************)
MantBits == 10

\* The powers of two an integer of the model can hold.
Pow2Table ==
    <<
      2, 4, 8, 16, 32, 64, 128, 256, 512, 1024, 2048, 4096, 8192,
      16384, 32768, 65536, 131072, 262144, 524288, 1048576, 2097152,
      4194304, 8388608, 16777216, 33554432, 67108864, 134217728,
      268435456, 536870912, 1073741824 >>

Pow2(n) == IF n <= 0 THEN 1 ELSE Pow2Table[n]

RECURSIVE Pow10(_)
Pow10(n) == IF n <= 0 THEN 1 ELSE 10 * Pow10(n - 1)

\* The number of bits of n.
BitLen(n) ==
    IF n <= 0 THEN 0
    ELSE IF n < 65536
         THEN IF n < 256
              THEN IF n < 16
                   THEN IF n < 4
                        THEN IF n < 2
                             THEN 1
                             ELSE 2
                        ELSE IF n < 8
                             THEN 3
                             ELSE 4
                   ELSE IF n < 64
                        THEN IF n < 32
                             THEN 5
                             ELSE 6
                        ELSE IF n < 128
                             THEN 7
                             ELSE 8
              ELSE IF n < 4096
                   THEN IF n < 1024
                        THEN IF n < 512
                             THEN 9
                             ELSE 10
                        ELSE IF n < 2048
                             THEN 11
                             ELSE 12
                   ELSE IF n < 16384
                        THEN IF n < 8192
                             THEN 13
                             ELSE 14
                        ELSE IF n < 32768
                             THEN 15
                             ELSE 16
         ELSE IF n < 16777216
              THEN IF n < 1048576
                   THEN IF n < 262144
                        THEN IF n < 131072
                             THEN 17
                             ELSE 18
                        ELSE IF n < 524288
                             THEN 19
                             ELSE 20
                   ELSE IF n < 4194304
                        THEN IF n < 2097152
                             THEN 21
                             ELSE 22
                        ELSE IF n < 8388608
                             THEN 23
                             ELSE 24
              ELSE IF n < 268435456
                   THEN IF n < 67108864
                        THEN IF n < 33554432
                             THEN 25
                             ELSE 26
                        ELSE IF n < 134217728
                             THEN 27
                             ELSE 28
                   ELSE IF n < 1073741824
                        THEN IF n < 536870912
                             THEN 29
                             ELSE 30
                        ELSE 31

Abs(x) == IF x < 0 THEN -x ELSE x

Sgn(x) == IF x < 0 THEN -1 ELSE IF x = 0 THEN 0 ELSE 1

Zero == [m |-> 0, e |-> 0]

\* sg * q * 2^e, where rounding may have carried q up to 2^MantBits.
Carried(sg, q, e) ==
    IF q = Pow2(MantBits) THEN [m |-> sg * Pow2(MantBits - 1), e |-> e + 1]
    ELSE [m |-> sg * q, e |-> e]

\* q + r / 2h, rounded to the nearest integer, ties to even.
NearestEven(q, r, h) ==
    IF r > h \/ (r = h /\ q % 2 = 1) THEN q + 1 ELSE q

\* sg * a * 2^e for a of k bits, rounded to MantBits bits.
Rounded(sg, a, k, e) ==
    IF k <= MantBits
    THEN [m |-> sg * a * Pow2(MantBits - k), e |-> e - (MantBits - k)]
    ELSE Carried(sg,
                 NearestEven(a \div Pow2(k - MantBits), a % Pow2(k - MantBits),
                             Pow2(k - MantBits - 1)),
                 e + k - MantBits)

\* m * 2^e rounded to MantBits bits, ties to even, in canonical form.
Norm(m, e) ==
    IF m = 0 THEN Zero ELSE Rounded(Sgn(m), Abs(m), BitLen(Abs(m)), e)

\* A quotient with its sticky bit: odd when the division left a remainder.
Sticky(q, r) == IF r # 0 /\ q % 2 = 0 THEN q + 1 ELSE q

Quotient(n, a, d, e, s) ==
    Norm(Sgn(n) * Sticky((a * Pow2(s)) \div d, (a * Pow2(s)) % d), e - s)

Shift(kd, ka) == IF MantBits + 2 + kd > ka THEN MantBits + 2 + kd - ka ELSE 0

\* (n / d) * 2^e correctly rounded, for integers n and d > 0.
RECURSIVE Rat(_, _, _)
Rat(n, d, e) ==
    IF n = 0 THEN Zero
    ELSE IF d % 2 = 0 THEN Rat(n, d \div 2, e - 1)
    ELSE Quotient(n, Abs(n), d, e, Shift(BitLen(d), BitLen(Abs(n))))

FromInt(k) == Norm(k, 0)

\* A decimal literal n * 10^-k, as float("...") reads it.
Dec(n, k) == Rat(n, Pow10(k), 0)

FNeg(a) == [m |-> -a.m, e |-> a.e]

FMul(a, b) == Norm(a.m * b.m, a.e + b.e)

FDiv(a, b) == Rat(a.m * Sgn(b.m), Abs(b.m), a.e - b.e)

Aligned(a, b, lo) == Norm(a.m * Pow2(a.e - lo) + b.m * Pow2(b.e - lo), lo)

\* An operand below a quarter of the other's last place does not change it.
FAdd(a, b) ==
    IF a.m = 0 THEN b
    ELSE IF b.m = 0 THEN a
    ELSE IF a.e - b.e >= MantBits + 2 THEN a
    ELSE IF b.e - a.e >= MantBits + 2 THEN b
    ELSE Aligned(a, b, IF a.e < b.e THEN a.e ELSE b.e)

FSub(a, b) == FAdd(a, FNeg(b))

FLt(a, b) ==
    CASE a.m = 0 -> b.m > 0
      [] b.m = 0 -> a.m < 0
      [] a.m > 0 /\ b.m < 0 -> FALSE
      [] a.m < 0 /\ b.m > 0 -> TRUE
      [] a.m > 0 /\ b.m > 0 -> a.e < b.e \/ (a.e = b.e /\ a.m < b.m)
      [] OTHER -> a.e > b.e \/ (a.e = b.e /\ a.m < b.m)

FLe(a, b) == ~FLt(b, a)

FMin(a, b) == IF FLt(b, a) THEN b ELSE a

FMax(a, b) == IF FLt(a, b) THEN b ELSE a

\* math.floor: the integer below a float.
FFloor(a) ==
    IF a.e >= 0 THEN a.m * Pow2(a.e)
    ELSE IF -a.e >= MantBits THEN (IF a.m < 0 THEN -1 ELSE 0)
    ELSE a.m \div Pow2(-a.e)

One == FromInt(1)

(***************************************************************************)
(* Configuration read from the environment (src/app.py, ENV section).      *)
(* The values are the defaults of the code.                                *)
(***************************************************************************)
SYMBOL_DEFAULT == "BTC/USDT"

QUOTE_SYMBOL == "USDT"

FIXED_QUOTE_PER_TRADE == FromInt(10)

MIN_QUOTE_PER_TRADE == FromInt(10)

FEE_BUFFER_PCT == Dec(2, 3)

BASE_RESERVE == Dec(5, 6)

QUOTE_RESERVE == FromInt(5)

RISK_PCT == Dec(2, 2)

MAX_SL_PCT == Dec(5, 2)

TRAIL_ACTIVATE_PCT_CONF2 == Dec(4, 3)

TRAIL_GAP_CONF2 == Dec(2, 3)

TRAIL_ACTIVATE_PCT_CONF3 == Dec(6, 3)

TRAIL_GAP_CONF3 == Dec(3, 3)

\* The ceiling above which a market's minimum amount is taken for absurd.
AbsurdNotional == FromInt(200)

(***************************************************************************)
(* Market metadata and order sizing.                                       *)
(* A market is [known, amount_min, cost_min, has_precision, precision,     *)
(* lot]; a limit that is absent (None) or 0 is Zero, as the code's         *)
(* "x or 0.0" makes it; lot is the first positive of info's lotSz,         *)
(* lotSize, qtyStep, minQty, or Zero.  A step of Zero stands for None.     *)
(***************************************************************************)
\* Python's "a or b" on numbers.
OrF(a, b) == IF a.m # 0 THEN a ELSE b

_amount_step_from_market(market) ==
    IF market.has_precision
    THEN IF market.precision >= 0
         THEN Rat(1, Pow10(market.precision), 0)
         ELSE FromInt(Pow10(-market.precision))
    ELSE IF FLt(Zero, market.lot) THEN market.lot ELSE Zero

_get_min_trade_info(market, price) ==
    IF ~market.known
    THEN [ok |-> FALSE, err |-> "unknown_symbol",
          min_amount |-> Zero, min_cost |-> Zero, step |-> Zero]
    ELSE LET absurd == market.amount_min.m # 0 /\ price.m # 0
                       /\ FLt(AbsurdNotional, FMul(market.amount_min, price))
         IN  [ok |-> TRUE, err |-> "",
              min_amount |-> IF absurd THEN Zero ELSE market.amount_min,
              min_cost |-> market.cost_min,
              step |-> _amount_step_from_market(market)]

_round_floor(value, step) ==
    IF step.m = 0 \/ FLe(step, Zero)
    THEN value
    ELSE FMul(FromInt(FFloor(FDiv(value, step))), step)

\* The price the sizer reads from a ticker [last, close, ask, bid].
TickerPrice(t) == OrF(t.last, OrF(t.close, OrF(t.ask, t.bid)))

SizingFail(err, need, price) ==
    [ok |-> FALSE, err |-> err, need |-> need, qty |-> Zero, price |-> price]

\* The sizer from the fee buffer on: the two raises, the floor to the step
\* and the checks (lines 244-277).
SizeChecked(price, info, qty, up) ==
    IF FLe(qty, Zero)
    THEN SizingFail("TE_QTY_TOO_SMALL",
                    FMul(OrF(FMax(info.min_cost, FMul(info.min_amount, price)),
                             FMul(price, info.step)), up),
                    price)
    ELSE IF info.min_cost.m # 0 /\ FLt(FMul(qty, price), info.min_cost)
    THEN SizingFail("min_cost", FMul(info.min_cost, up), price)
    ELSE IF info.min_amount.m # 0 /\ FLt(qty, info.min_amount)
    THEN SizingFail("min_amount", FMul(FMul(info.min_amount, price), up), price)
    ELSE [ok |-> TRUE, err |-> "", need |-> Zero, qty |-> qty, price |-> price]

RaisedToMinAmount(info, qty) ==
    IF info.min_amount.m # 0 /\ FLt(qty, info.min_amount) THEN info.min_amount ELSE qty

RaisedToMinCost(price, info, qty) ==
    IF info.min_cost.m # 0 /\ FLt(FMul(qty, price), info.min_cost)
    THEN FDiv(info.min_cost, price) ELSE qty

FlooredToStep(info, qty) ==
    IF info.step.m # 0 THEN _round_floor(qty, info.step) ELSE qty

SizeWithInfo(price, info, quote_amt) ==
    IF ~info.ok THEN SizingFail(info.err, Zero, price)
    ELSE SizeChecked(price, info,
             FlooredToStep(info,
                 RaisedToMinAmount(info,
                     RaisedToMinCost(price, info,
                         FMul(FDiv(quote_amt, price), FSub(One, FEE_BUFFER_PCT))))),
             FAdd(One, FEE_BUFFER_PCT))

SizeAtPrice(price, market, quote_amt) ==
    IF FLe(price, Zero) THEN SizingFail("invalid_price", Zero, price)
    ELSE SizeWithInfo(price, _get_min_trade_info(market, price), quote_amt)

_compute_base_qty_for_quote(t, market, quote_amt) ==
    SizeAtPrice(TickerPrice(t), market, quote_amt)

\* The amount in units of 10^-precision, truncated.
Truncated(amount, scaled) ==
    IF amount.e >= 0 THEN scaled * Pow2(amount.e) ELSE scaled \div Pow2(-amount.e)

Printed(market, amount, units) ==
    IF units = 0 THEN amount ELSE Rat(units, Pow10(market.precision), 0)

_to_exchange_precision(market, amount) ==
    \* ccxt truncates the amount to the market's decimals and prints it; a
    \* result of 0, or a market without precision, raises, and the code keeps
    \* the amount it had.
    IF ~market.has_precision \/ market.precision < 0 \/ amount.m <= 0
    THEN amount
    ELSE Printed(market, amount,
                 Truncated(amount, amount.m * Pow10(market.precision)))

_tp_sl_from_confidence(conf) ==
    IF conf >= 3 THEN <<Dec(8, 3), Dec(5, 3)>> ELSE <<Dec(3, 3), Dec(2, 3)>>

_trail_params(conf) ==
    IF conf >= 3 THEN <<TRAIL_ACTIVATE_PCT_CONF3, TRAIL_GAP_CONF3>>
    ELSE <<TRAIL_ACTIVATE_PCT_CONF2, TRAIL_GAP_CONF2>>

(***************************************************************************)
(* Symbols (_normalize_to_ccxt_symbol, lines 140-163).  A symbol string is *)
(* a sequence of one-character strings, so that case, separators and       *)
(* suffixes are computed character by character.                           *)
(***************************************************************************)
LowerCase ==
    <<"a", "b", "c", "d", "e", "f", "g", "h", "i", "j", "k", "l", "m">>
    \o <<"n", "o", "p", "q", "r", "s", "t", "u", "v", "w", "x", "y", "z">>

UpperCase ==
    <<"A", "B", "C", "D", "E", "F", "G", "H", "I", "J", "K", "L", "M">>
    \o <<"N", "O", "P", "Q", "R", "S", "T", "U", "V", "W", "X", "Y", "Z">>

\* str.upper() on one character: letters are raised, the rest is kept.
UpperChar(c) ==
    IF \E i \in 1..Len(LowerCase) : LowerCase[i] = c
    THEN UpperCase[CHOOSE i \in 1..Len(LowerCase) : LowerCase[i] = c]
    ELSE c

upper(s) == [i \in 1..Len(s) |-> UpperChar(s[i])]

replace(s, old, new) == [i \in 1..Len(s) |-> IF s[i] = old THEN new ELSE s[i]]

endswith(s, q) ==
    /\ Len(s) >= Len(q)
    /\ SubSeq(s, Len(s) - Len(q) + 1, Len(s)) = q

\* The quote currencies tried in turn on a symbol without a separator
\* (line 152), in the order of the loop.
QuoteSuffixes ==
    << <<"U", "S", "D", "T">>,
       <<"U", "S", "D">>,
       <<"U", "S", "D", "C">>,
       <<"E", "U", "R">>,
       <<"B", "T", "C">>,
       <<"E", "T", "H">> >>

SuffixHits(s) == {i \in 1..Len(QuoteSuffixes) : endswith(s, QuoteSuffixes[i])}

\* The loop breaks at the first suffix that matches.
FirstHit(s) == CHOOSE i \in SuffixHits(s) : \A j \in SuffixHits(s) : i <= j

\* base = s[:-len(q)]; s = f"{base}/{q}"
WithSlash(s, q) == SubSeq(s, 1, Len(s) - Len(q)) \o <<"/">> \o q

Slashes(s) == {i \in 1..Len(s) : s[i] = "/"}

Returned(out) == [exc |-> "", out |-> out]

Raised(exc) == [exc |-> exc, out |-> <<>>]

\* if base == "XBT": base = "BTC"
Alias(base) == IF base = <<"X", "B", "T">> THEN <<"B", "T", "C">> ELSE base

Joined(base, quote) == Returned(Alias(base) \o <<"/">> \o quote)

\* base, quote = s.split("/"): the unpacking needs exactly two parts.
Unpacked(s) ==
    IF Cardinality(Slashes(s)) # 1
    THEN Raised("ValueError")
    ELSE Joined(SubSeq(s, 1, (CHOOSE i \in Slashes(s) : TRUE) - 1),
                SubSeq(s, (CHOOSE i \in Slashes(s) : TRUE) + 1, Len(s)))

Separated(s, symbol_default) ==
    IF Slashes(s) # {}
    THEN Unpacked(s)
    ELSE IF SuffixHits(s) = {}
         THEN Returned(symbol_default)
         ELSE Unpacked(WithSlash(s, QuoteSuffixes[FirstHit(s)]))

_normalize_to_ccxt_symbol(s, symbol_default) ==
    IF s = <<>>
    THEN Returned(symbol_default)
    ELSE Separated(upper(replace(s, "-", "/")), symbol_default)

\* SYMBOL_DEFAULT = f"{BASE_SYMBOL}/{QUOTE_SYMBOL}" for a configured base and
\* the quote USDT.
SymbolDefault(base_symbol) == base_symbol \o <<"/">> \o <<"U", "S", "D", "T">>

(***************************************************************************)
(* State.                                                                  *)
(*   env    the configuration of the run and the exchange's market         *)
(*   now    the clock, in ticks                                            *)
(*   state  _state, the position record                                    *)
(*   file   STATE_FILE: whether it exists, and the record last written     *)
(*   price  the exchange's last price of the symbol                        *)
(*   bal    the free balances on the exchange                              *)
(*   mons   the trailing monitor threads started so far                    *)
(*   last   the last webhook request and what the handler did with it      *)
(*   hist   history: order calls made on the exchange, last accepted BUY   *)
(*   sz     a call of the sizer alone: its inputs and its result           *)
(*   poll   the last pass of a watched monitor: what it read, and the      *)
(*          monitor, record, file and balances it found                    *)
(***************************************************************************)
VARIABLES env, now, state, file, price, bal, mons, last, hist, sz, nm,
          pend, boots, lk, poll

vars ==
    <<env, now, state, file, price, bal, mons, last, hist, sz, nm,
      pend, boots, lk, poll>>

\* BUY_COOL_SEC as read from the environment, here two ticks of the clock.
BUY_COOL_SEC == 2

MaxTime == 4

MaxReq == 2

Secret == "s3cret"

Market0 ==
    [known |-> TRUE, amount_min |-> Dec(1, 2), cost_min |-> FromInt(1),
     has_precision |-> TRUE, precision |-> 3, lot |-> Zero]

EnvLive ==
    [DRY_RUN |-> FALSE, WEBHOOK_SECRET |-> Secret, TRAILING_ENABLED |-> TRUE,
     ORDER_TYPE |-> "market", BUY_SPLIT_CHUNKS |-> 2, SELL_SPLIT_CHUNKS |-> 1,
     keys_ok |-> TRUE, market |-> Market0]

EnvDry == [EnvLive EXCEPT !.DRY_RUN = TRUE]

EnvOpen == [EnvLive EXCEPT !.WEBHOOK_SECRET = ""]

State0 ==
    [has_position |-> FALSE, last_buy_ts |-> 0, last_entry_price |-> Zero,
     last_qty |-> Zero, symbol |-> SYMBOL_DEFAULT]

\* STATE_FILE: absent until the first save, then the record last written.
NoFile == [exists |-> FALSE, data |-> State0]

Saved(st) == [exists |-> TRUE, data |-> st]

\* The ticker the exchange returns while its last price is p.
TickerOf(p) == [last |-> p, close |-> p, ask |-> p, bid |-> p]

(***************************************************************************)
(* The exchange's order placement.  outcome is what the network and the    *)
(* exchange make of the call: "net" a transient network error, "insuf" and *)
(* "invalid" a refusal; on "ok" the exchange still refuses an order of no  *)
(* quantity or beyond the free balance.  Fills are at the last price.      *)
(***************************************************************************)
create_market_buy_order(b, qty, p, outcome) ==
    IF outcome # "ok" THEN [exc |-> outcome, bal |-> b]
    ELSE IF FLe(qty, Zero) THEN [exc |-> "invalid", bal |-> b]
    ELSE IF FLt(b.quote, FMul(qty, p)) THEN [exc |-> "insuf", bal |-> b]
    ELSE [exc |-> "",
          bal |-> [quote |-> FSub(b.quote, FMul(qty, p)), base |-> FAdd(b.base, qty)]]

create_market_sell_order(b, qty, p, outcome) ==
    IF outcome # "ok" THEN [exc |-> outcome, bal |-> b]
    ELSE IF FLe(qty, Zero) THEN [exc |-> "invalid", bal |-> b]
    ELSE IF FLt(b.base, qty) THEN [exc |-> "insuf", bal |-> b]
    ELSE [exc |-> "",
          bal |-> [quote |-> FAdd(b.quote, FMul(qty, p)), base |-> FSub(b.base, qty)]]

(***************************************************************************)
(* POST /webhook.                                                          *)
(* A request is [body, creds, signal, confidence, indicators_count, quote, *)
(* force_close, qty_base]: body says whether the JSON body is an object;   *)
(* creds holds the five places a secret can come in, "" where absent;      *)
(* signal is the upper-cased signal; a number that is absent is 0 (Zero),  *)
(* which the code's "x or default" treats like None; qty_base is [kind,    *)
(* v], kind being "none", "bad" (not a number) or "num".  The handler does *)
(* not read the                                                            *)
(* payload's timestamp or id, so a payload delivered twice is two equal    *)
(* requests.  out is what the exchange does during the request: script[k]  *)
(* is the outcome of the k-th order placement call, readFail names the     *)
(* read call that fails with a network error.                              *)
(***************************************************************************)
Reply(status, reason, error, wait) ==
    [status |-> status, reason |-> reason, error |-> error, wait |-> wait]

\* What one request did: its reply, the record and balances it leaves, the
\* order calls made and accepted, the orders listed in the reply, whether an
\* exchange call was reached, the monitors started, whether _with_state ran.
Effect(reply, st, b, attempts, placed, recorded, touched, started, saved) ==
    [reply |-> reply, st |-> st, bal |-> b, attempts |-> attempts,
     placed |-> placed, recorded |-> recorded, touched |-> touched,
     started |-> started, saved |-> saved]

Return(reply, st, b, touched) ==
    Effect(reply, st, b, 0, 0, 0, touched, <<>>, FALSE)

\* The except clauses of the handler (lines 611-622).
ExceptReply(exc) ==
    CASE exc = "insuf" -> Reply(400, "", "InsufficientFunds", 0)
      [] exc = "net" -> Reply(503, "", "NetworkError", 0)
      [] exc = "invalid" -> Reply(502, "", "ExchangeError", 0)
      [] OTHER -> Reply(500, "", "server_error", 0)

\* tok: the first secret supplied, in the order the code looks for it.
SuppliedToken(req) ==
    LET c    == req.creds
        or2(a, b2) == IF a # "" THEN a ELSE b2
    IN  or2(c.psecret, or2(c.asecret, or2(c.ptoken, or2(c.atoken, c.header))))

Unauthorized(e, req) ==
    e.WEBHOOK_SECRET # "" /\ SuppliedToken(req) # e.WEBHOOK_SECRET

Confidence(req) ==
    IF req.confidence # 0 THEN req.confidence
    ELSE IF req.indicators_count # 0 THEN req.indicators_count ELSE 2

\* Variants of the two BUY guards that the properties below must tell from
\* the code's: no cooldown at all, a cooldown two ticks longer, and a handler
\* blind to the open position.
BuyCooldownNever(st, t) == FALSE

BuyCooldownLonger(st, t) ==
    st.last_buy_ts # 0 /\ t - st.last_buy_ts < BUY_COOL_SEC + 2

PositionOpenNever(st) == FALSE

\* Line 433.
BuyCooldownActive(st, t) ==
    st.last_buy_ts # 0 /\ t - st.last_buy_ts < BUY_COOL_SEC

\* Line 438.
PositionOpen(st) == st.has_position

Min2(a, b) == IF b < a THEN b ELSE a

Max2(a, b) == IF b > a THEN b ELSE a

\* The monitor's start with the caller's stop percent taken as it comes.
StartMonitorUncapped(symbol, qty, entry_price, conf, base_sl_pct) ==
    [symbol |-> symbol, qty |-> qty, entry_price |-> entry_price, conf |-> conf,
     max_price |-> entry_price,
     initial_stop |-> FMul(entry_price, FSub(One, base_sl_pct)),
     activated |-> FALSE, alive |-> TRUE]

\* _monitor_trailing up to its loop: the thread a BUY starts.
StartMonitor(symbol, qty, entry_price, conf, base_sl_pct) ==
    [symbol |-> symbol, qty |-> qty, entry_price |-> entry_price, conf |-> conf,
     max_price |-> entry_price,
     initial_stop |-> FMul(entry_price, FSub(One, FMin(base_sl_pct, MAX_SL_PCT))),
     activated |-> FALSE, alive |-> TRUE]

\* The sizer's answer as the BUY loop sees it: a quantity and a price, or
\* the exception raised.
BuySized(r) ==
    [ok |-> r.ok, exc |-> IF r.ok THEN "" ELSE "runtime", qty |-> r.qty,
     price |-> r.price]

\* One sizing call of the BUY path.
BuySize(e, p, out, amt) ==
    IF out.readFail = "ticker"
    THEN [ok |-> FALSE, exc |-> "net", qty |-> Zero, price |-> Zero]
    ELSE BuySized(_compute_base_qty_for_quote(TickerOf(p), e.market, amt))

\* Lines 498-503: the order's result added to the totals.
BuyPlaced(acc, chunks, fill_price, base_qty, o) ==
    IF o.exc # ""
    THEN [acc EXCEPT !.chunks = chunks, !.price = fill_price, !.exc = o.exc,
                     !.attempts = @ + 1]
    ELSE [acc EXCEPT !.chunks = chunks, !.price = fill_price,
                     !.total_qty = FAdd(@, base_qty),
                     !.vw_cost = FAdd(@, FMul(base_qty, fill_price)),
                     !.recorded = @ + 1, !.attempts = @ + 1, !.placed = @ + 1,
                     !.bal = o.bal]

\* Lines 493-503: a dry run fabricates the order, a live run places it.
BuySend(acc, e, p, out, chunks, fill_price, base_qty) ==
    IF e.DRY_RUN
    THEN [acc EXCEPT !.chunks = chunks, !.price = fill_price,
                     !.total_qty = FAdd(@, base_qty),
                     !.vw_cost = FAdd(@, FMul(base_qty, fill_price)),
                     !.recorded = @ + 1]
    ELSE BuyPlaced(acc, chunks, fill_price, base_qty,
                   create_market_buy_order(acc.bal, base_qty, p,
                                           out.script[acc.attempts + 1]))

\* Lines 484-487: the final rounding before the order.
BuyRounded(acc, e, p, out, chunks, s) ==
    IF ~s.ok THEN [acc EXCEPT !.exc = s.exc]
    ELSE BuySend(acc, e, p, out, chunks, s.price,
                 _to_exchange_precision(e.market,
                     FlooredToStep(_get_min_trade_info(e.market, s.price), s.qty)))

\* Lines 473-481: a sizing that fails falls back once to the whole amount.
BuyFallback(acc, e, p, out, quote_to_use, s1) ==
    IF ~s1.ok /\ acc.chunks > 1
    THEN BuyRounded(acc, e, p, out, 1, BuySize(e, p, out, quote_to_use))
    ELSE BuyRounded(acc, e, p, out, acc.chunks, s1)

\* One pass of the chunk loop (lines 472-506).
BuyChunk(acc, e, p, out, per_chunk_quote, quote_to_use) ==
    BuyFallback(acc, e, p, out, quote_to_use, BuySize(e, p, out, per_chunk_quote))

\* for i in range(chunks): the count is fixed when the loop starts.
RECURSIVE BuyLoop(_, _, _, _, _, _, _, _)
BuyLoop(i, n, acc, e, p, out, per_chunk_quote, quote_to_use) ==
    IF i >= n \/ acc.exc # "" THEN acc
    ELSE BuyLoop(i + 1, n, BuyChunk(acc, e, p, out, per_chunk_quote, quote_to_use),
                 e, p, out, per_chunk_quote, quote_to_use)

\* Lines 456-459: the stop percentage, bounded by RISK_PCT.
SlPct(requested_quote, sl0) ==
    IF FLt(FMul(requested_quote, RISK_PCT), FMul(requested_quote, sl0))
    THEN RISK_PCT ELSE sl0

\* Lines 510-529: the record of the buy, the monitor thread and the reply.
BuyRecorded(req, e, t, acc, vwap) ==
    Effect(Reply(200, "", "", 0),
           [has_position |-> TRUE, last_buy_ts |-> t, last_entry_price |-> vwap,
            last_qty |-> acc.total_qty, symbol |-> SYMBOL_DEFAULT],
           acc.bal, acc.attempts, acc.placed, acc.recorded, TRUE,
           IF e.TRAILING_ENABLED /\ FLt(Zero, acc.total_qty)
           THEN <<StartMonitor(SYMBOL_DEFAULT, acc.total_qty, vwap, Confidence(req),
                               SlPct(OrF(req.quote, FIXED_QUOTE_PER_TRADE),
                                     _tp_sl_from_confidence(Confidence(req))[2]))>>
           ELSE <<>>,
           TRUE)

\* After the loop: an exception leaves the record alone and goes to the
\* except clauses; otherwise line 508 and what follows.
BuyDone(req, e, st, t, acc) ==
    IF acc.exc # ""
    THEN Effect(ExceptReply(acc.exc), st, acc.bal, acc.attempts, acc.placed,
                acc.recorded, TRUE, <<>>, FALSE)
    ELSE BuyRecorded(req, e, t, acc,
                     IF FLt(Zero, acc.total_qty) THEN FDiv(acc.vw_cost, acc.total_qty)
                     ELSE acc.price)

\* Lines 451-470, from the capped quote to the chunk loop.
BuyWithQuote(req, out, e, st, b, p, t, quote_to_use, chunks) ==
    IF FLe(quote_to_use, Zero)
    THEN Return(Reply(400, "", "not_enough_quote", 0), st, b, TRUE)
    ELSE IF e.ORDER_TYPE # "market"
    THEN Return(Reply(400, "", "market_only", 0), st, b, TRUE)
    ELSE BuyDone(req, e, st, t,
                 BuyLoop(0, chunks,
                         [exc |-> "", chunks |-> chunks, total_qty |-> Zero,
                          vw_cost |-> Zero, attempts |-> 0, placed |-> 0,
                          recorded |-> 0, bal |-> b, price |-> Zero],
                         e, p, out, FDiv(quote_to_use, FromInt(chunks)), quote_to_use))

\* The BUY branch (lines 430-529).
WebhookBuy(req, out, e, st, b, p, t) ==
    IF BuyCooldownActive(st, t)
    THEN Return(Reply(200, "buy_cooldown", "", BUY_COOL_SEC - (t - st.last_buy_ts)),
                st, b, FALSE)
    ELSE IF PositionOpen(st)
    THEN Return(Reply(200, "position_already_open", "", 0), st, b, FALSE)
    ELSE IF FLt(OrF(req.quote, FIXED_QUOTE_PER_TRADE), MIN_QUOTE_PER_TRADE)
    THEN Return(Reply(400, "", "sizing_error", 0), st, b, FALSE)
    ELSE IF out.readFail = "balance"
    THEN Return(ExceptReply("net"), st, b, TRUE)
    ELSE BuyWithQuote(req, out, e, st, b, p, t,
                      FMin(OrF(req.quote, FIXED_QUOTE_PER_TRADE),
                           FMax(Zero, FSub(b.quote, QUOTE_RESERVE))),
                      Max2(1, Min2(e.BUY_SPLIT_CHUNKS, 10)))

\* Lines 596-606: a sell order that failed; with several chunks the rest is
\* tried once more, and the loop breaks either way.
SellFallback(acc, sell_chunks, o2) ==
    IF o2.exc = ""
    THEN [acc EXCEPT !.attempts = @ + 2, !.placed = @ + 1, !.bal = o2.bal,
                     !.remaining = Zero, !.stop = TRUE]
    ELSE [acc EXCEPT !.attempts = @ + 2, !.stop = TRUE]

SellPlaced(acc, e, p, out, sell_chunks, q, o) ==
    IF o.exc = ""
    THEN [acc EXCEPT !.attempts = @ + 1, !.placed = @ + 1, !.bal = o.bal,
                     !.remaining = FSub(@, q)]
    ELSE IF sell_chunks > 1 /\ FLt(Zero, acc.remaining)
    THEN SellFallback(acc, sell_chunks,
             create_market_sell_order(acc.bal,
                 _to_exchange_precision(e.market, acc.remaining), p,
                 out.script[acc.attempts + 2]))
    ELSE [acc EXCEPT !.attempts = @ + 1, !.stop = TRUE]

SellSend(acc, e, p, out, sell_chunks, q) ==
    IF FLe(q, Zero) THEN acc
    ELSE SellPlaced(acc, e, p, out, sell_chunks, q,
                    create_market_sell_order(acc.bal, q, p,
                                             out.script[acc.attempts + 1]))

\* One pass of the SELL loop (lines 585-606); acc.stop is the break.
SellChunk(i, acc, e, p, out, sell_chunks, chunk_qty, step) ==
    SellSend(acc, e, p, out, sell_chunks,
             _to_exchange_precision(e.market,
                 _round_floor(IF i < sell_chunks - 1 THEN chunk_qty
                              ELSE acc.remaining, step)))

RECURSIVE SellLoop(_, _, _, _, _, _, _, _)
SellLoop(i, acc, e, p, out, sell_chunks, chunk_qty, step) ==
    IF i >= sell_chunks \/ acc.stop THEN acc
    ELSE SellLoop(i + 1, SellChunk(i, acc, e, p, out, sell_chunks, chunk_qty, step),
                  e, p, out, sell_chunks, chunk_qty, step)

\* Lines 608-609: the position is marked closed whatever the orders did.
SellDone(st, acc) ==
    Effect(Reply(200, "", "", 0), [st EXCEPT !.has_position = FALSE, !.last_qty = Zero],
           acc.bal, acc.attempts, acc.placed, acc.placed, TRUE, <<>>, TRUE)

\* Lines 569-609: the fallback to one chunk, the dry run, the loop.
SellPlan(out, e, st, b, p, base_qty_to_sell, info, sell_chunks, chunk_qty) ==
    IF e.DRY_RUN
    THEN Effect(Reply(200, "", "", 0),
                [st EXCEPT !.has_position = FALSE, !.last_qty = Zero],
                b, 0, 0, 0, TRUE, <<>>, TRUE)
    ELSE IF (info.min_amount.m # 0 /\ FLt(chunk_qty, info.min_amount))
            \/ FLe(chunk_qty, Zero)
    THEN SellDone(st, SellLoop(0, [remaining |-> base_qty_to_sell, attempts |-> 0,
                                   placed |-> 0, bal |-> b, stop |-> FALSE],
                               e, p, out, 1, base_qty_to_sell, info.step))
    ELSE SellDone(st, SellLoop(0, [remaining |-> base_qty_to_sell, attempts |-> 0,
                                   placed |-> 0, bal |-> b, stop |-> FALSE],
                               e, p, out, sell_chunks, chunk_qty, info.step))

\* Lines 563-567: the quantity of one chunk.
SellSplit(out, e, st, b, p, base_qty_to_sell, info, sell_chunks) ==
    IF ~info.ok THEN Return(ExceptReply("runtime"), st, b, TRUE)
    ELSE SellPlan(out, e, st, b, p, base_qty_to_sell, info, sell_chunks,
                  FlooredToStep(info, FDiv(base_qty_to_sell, FromInt(sell_chunks))))

\* Lines 554-564: the checks on the capped quantity.
SellCapped(out, e, st, b, p, base_qty_to_sell) ==
    IF FLe(base_qty_to_sell, Zero)
    THEN Return(Reply(400, "", "no_sellable_base", 0), st, b, TRUE)
    ELSE IF e.ORDER_TYPE # "market"
    THEN Return(Reply(400, "", "market_only", 0), st, b, TRUE)
    ELSE IF out.readFail = "ticker"
    THEN Return(ExceptReply("net"), st, b, TRUE)
    ELSE SellSplit(out, e, st, b, p, base_qty_to_sell,
                   _get_min_trade_info(e.market, p),
                   Max2(1, Min2(e.SELL_SPLIT_CHUNKS, 10)))

\* Lines 539-554: the quantity asked for, capped by what can be sold.
SellWanted(req, out, e, st, b, p, sellable, sized) ==
    IF req.force_close THEN SellCapped(out, e, st, b, p, sellable)
    ELSE IF req.qty_base.kind = "bad"
    THEN Return(Reply(400, "", "qty_base_invalid", 0), st, b, TRUE)
    ELSE IF req.qty_base.kind = "num"
    THEN SellCapped(out, e, st, b, p, FMin(req.qty_base.v, sellable))
    ELSE IF ~sized.ok
    THEN Return(Reply(400, "", "sizing_error", 0), st, b, TRUE)
    ELSE SellCapped(out, e, st, b, p, FMin(sized.qty, sellable))

\* The SELL branch (lines 531-609).
WebhookSell(req, out, e, st, b, p) ==
    IF out.readFail = "balance"
    THEN Return(ExceptReply("net"), st, b, TRUE)
    ELSE SellWanted(req, out, e, st, b, p,
                    FMax(Zero, FSub(b.base, BASE_RESERVE)),
                    IF req.force_close \/ req.qty_base.kind # "none"
                    THEN SizingFail("", Zero, Zero)
                    ELSE IF out.readFail = "ticker"
                    THEN SizingFail("network", Zero, Zero)
                    ELSE _compute_base_qty_for_quote(TickerOf(p), e.market,
                             OrF(req.quote, FIXED_QUOTE_PER_TRADE)))

\* The handler (lines 391-622), under _position_lock from entry to return.
webhook(req, out, e, st, b, p, t) ==
    IF req.body # "object"
    THEN Return(ExceptReply("runtime"), st, b, FALSE)
    ELSE IF Unauthorized(e, req)
    THEN Return(Reply(401, "", "unauthorized", 0), st, b, FALSE)
    ELSE IF req.signal = "PING"
    THEN Return(Reply(200, "", "", 0), st, b, FALSE)
    ELSE IF req.signal \notin {"BUY", "SELL"}
    THEN Return(Reply(400, "", "invalid_signal", 0), st, b, FALSE)
    ELSE IF ~e.keys_ok
    THEN Return(ExceptReply("runtime"), st, b, FALSE)
    ELSE IF req.signal = "BUY"
    THEN WebhookBuy(req, out, e, st, b, p, t)
    ELSE WebhookSell(req, out, e, st, b, p)

(***************************************************************************)
(* The trailing monitor: one pass of its loop (lines 304-347) with a       *)
(* ticker that was fetched.  outcome is what the exchange makes of the     *)
(* closing order, if one is sent.                                          *)
(***************************************************************************)
MonitorOrder(info, o, b) ==
    IF ~info.ok THEN [attempts |-> 0, placed |-> 0, bal |-> b]
    ELSE [attempts |-> 1, placed |-> IF o.exc = "" THEN 1 ELSE 0, bal |-> o.bal]

\* Lines 314-320 and 335-341: the closing order, its failure swallowed.
MonitorSell(m, e, b, p, outcome) ==
    MonitorOrder(_get_min_trade_info(e.market, p),
                 create_market_sell_order(b,
                     _to_exchange_precision(e.market,
                         FlooredToStep(_get_min_trade_info(e.market, p), m.qty)),
                     p, outcome),
                 b)

\* The trailing stop with the high-water mark left where it was.
MonitorTrailStale(m, e, b, p, outcome, lastp, max_price, gap) ==
    IF FLe(lastp, FMax(m.initial_stop, FMul(m.max_price, FSub(One, gap))))
    THEN [m |-> [m EXCEPT !.activated = TRUE, !.alive = FALSE],
          closed |-> TRUE, sell |-> MonitorSell(m, e, b, p, outcome)]
    ELSE [m |-> [m EXCEPT !.activated = TRUE],
          closed |-> FALSE, sell |-> [attempts |-> 0, placed |-> 0, bal |-> b]]

\* Lines 328-342: the trailing stop once activated.
MonitorTrail(m, e, b, p, outcome, lastp, max_price, gap) ==
    IF FLe(lastp, FMax(m.initial_stop, FMul(max_price, FSub(One, gap))))
    THEN [m |-> [m EXCEPT !.activated = TRUE, !.max_price = max_price,
                          !.alive = FALSE],
          closed |-> TRUE, sell |-> MonitorSell(m, e, b, p, outcome)]
    ELSE [m |-> [m EXCEPT !.activated = TRUE, !.max_price = max_price],
          closed |-> FALSE, sell |-> [attempts |-> 0, placed |-> 0, bal |-> b]]

\* The pass without the test of a non-positive price.
MonitorPassUnguarded(m, e, b, p, outcome, lastp, params) ==
    IF FLe(lastp, m.initial_stop)
    THEN [m |-> [m EXCEPT !.alive = FALSE], closed |-> TRUE,
          sell |-> MonitorSell(m, e, b, p, outcome)]
    ELSE IF m.activated \/ FLe(FMul(m.entry_price, FAdd(One, params[1])), lastp)
    THEN MonitorTrail(m, e, b, p, outcome, lastp, FMax(m.max_price, lastp), params[2])
    ELSE [m |-> m, closed |-> FALSE, sell |-> [attempts |-> 0, placed |-> 0, bal |-> b]]

\* Lines 308-343, with the ticker's price and the trail parameters.
MonitorPass(m, e, b, p, outcome, lastp, params) ==
    IF FLe(lastp, Zero)
    THEN [m |-> m, closed |-> FALSE, sell |-> [attempts |-> 0, placed |-> 0, bal |-> b]]
    ELSE IF FLe(lastp, m.initial_stop)
    THEN [m |-> [m EXCEPT !.alive = FALSE], closed |-> TRUE,
          sell |-> MonitorSell(m, e, b, p, outcome)]
    ELSE IF m.activated \/ FLe(FMul(m.entry_price, FAdd(One, params[1])), lastp)
    THEN MonitorTrail(m, e, b, p, outcome, lastp, FMax(m.max_price, lastp), params[2])
    ELSE [m |-> m, closed |-> FALSE, sell |-> [attempts |-> 0, placed |-> 0, bal |-> b]]

MonitorStep(m, e, b, p, outcome) ==
    MonitorPass(m, e, b, p, outcome, OrF(TickerOf(p).last, TickerOf(p).close),
                _trail_params(m.conf))

\* One iteration of the while loop (lines 304-347): a fetch_ticker that
\* raises is caught by the outer except (lines 345-347), which logs, sleeps
\* and loops.
MonitorTry(m, e, b, p, outcome, fetched) ==
    IF ~fetched
    THEN [m |-> m, closed |-> FALSE, sell |-> [attempts |-> 0, placed |-> 0, bal |-> b]]
    ELSE MonitorStep(m, e, b, p, outcome)

(***************************************************************************)
(* Actions.                                                                *)
(***************************************************************************)
AllOk == <<"ok", "ok", "ok">>

Scripts == {AllOk, <<"net", "net", "ok">>, <<"insuf", "ok", "ok">>}

Outs ==
    {[script |-> sc, readFail |-> "none"] : sc \in Scripts}
    \cup {[script |-> AllOk, readFail |-> "balance"]}

Creds(ps, as, pt, at, h) ==
    [psecret |-> ps, asecret |-> as, ptoken |-> pt, atoken |-> at, header |-> h]

NoQty == [kind |-> "none", v |-> Zero]

Req(body, creds, signal, conf, quote, force, qty) ==
    [body |-> body, creds |-> creds, signal |-> signal, confidence |-> conf,
     indicators_count |-> 0, quote |-> quote, force_close |-> force, qty_base |-> qty]

GoodCreds == Creds(Secret, "", "", "", "")

BuyDefault == Req("object", GoodCreds, "BUY", 0, Zero, FALSE, NoQty)

BuySmall == Req("object", GoodCreds, "BUY", 3, FromInt(5), FALSE, NoQty)

SellAll == Req("object", GoodCreds, "SELL", 0, Zero, TRUE, NoQty)

SellQuote == Req("object", GoodCreds, "SELL", 0, Zero, FALSE, NoQty)

\* A BUY whose secret is wrong, a SELL without any secret, and a body that is
\* a JSON array, sent with a wrong secret in the query string.
BuyBadSecret ==
    Req("object", Creds("guess", "", "", "", ""), "BUY", 0, Zero, FALSE, NoQty)

SellNoSecret == Req("object", Creds("", "", "", "", ""), "SELL", 0, Zero, TRUE, NoQty)

ArrayBadSecret ==
    Req("array", Creds("", "guess", "", "", ""), "BUY", 0, Zero, FALSE, NoQty)

Requests ==
    {BuyDefault, BuySmall, SellAll, SellQuote, BuyBadSecret, SellNoSecret,
     ArrayBadSecret}

Prices == {FromInt(99), FromInt(100)}

InitBals == {[quote |-> FromInt(50), base |-> Dec(2, 1)]}

NoOut == [script |-> AllOk, readFail |-> "none"]

NoLast ==
    [n |-> 0, at |-> 0, req |-> Req("none", GoodCreds, "", 0, Zero, FALSE, NoQty),
     out |-> NoOut, dup |-> FALSE,
     hadPosition |-> FALSE, sinceBuy |-> -1, fundsOk |-> FALSE, sizeOk |-> FALSE,
     reply |-> Reply(0, "", "", 0), attempts |-> 0, placed |-> 0, recorded |-> 0,
     touched |-> FALSE, started |-> 0, changed |-> FALSE]

NoSz ==
    [quote |-> Zero, ticker |-> TickerOf(Zero), market |-> Market0, done |-> FALSE,
     res |-> SizingFail("", Zero, Zero)]

NoResult == [exc |-> "none", out |-> <<>>]

NoNm ==
    [base_symbol |-> <<"B", "T", "C">>, input |-> <<>>, stage |-> 0,
     r1 |-> NoResult, r2 |-> NoResult]

\* The request threads of the worker, none of them serving a request, and
\* _position_lock free (owner 0).
MaxThreads == 2

Threads == 1..MaxThreads

NoLk ==
    [owner |-> 0,
     pc |-> [t \in Threads |-> "idle"],
     req |-> [t \in Threads |-> BuyDefault],
     seen |-> [t \in Threads |-> [st |-> State0, bal |-> [quote |-> Zero, base |-> Zero]]],
     reply |-> [t \in Threads |-> Reply(0, "", "", 0)]]

NoPoll ==
    [seen |-> FALSE, i |-> 0, fetched |-> FALSE, lastp |-> Zero,
     base_sl_pct |-> Zero, attempts |-> 0,
     was |-> [m |-> StartMonitor(SYMBOL_DEFAULT, Zero, Zero, 0, Zero),
              st |-> State0, file |-> NoFile,
              bal |-> [quote |-> Zero, base |-> Zero]]]

\* The requested quote fits the free quote balance less the reserve.
FundsOk(req, b) ==
    FLe(OrF(req.quote, FIXED_QUOTE_PER_TRADE), FSub(b.quote, QUOTE_RESERVE))

\* The requested quote is a legal order: at least MIN_QUOTE_PER_TRADE, and
\* the sizer accepts each chunk of it.
SizeOk(req, e, p) ==
    LET requested_quote == OrF(req.quote, FIXED_QUOTE_PER_TRADE)
        chunks == Max2(1, Min2(e.BUY_SPLIT_CHUNKS, 10))
    IN  /\ FLe(MIN_QUOTE_PER_TRADE, requested_quote)
        /\ _compute_base_qty_for_quote(TickerOf(p), e.market,
                                       FDiv(requested_quote, FromInt(chunks))).ok

InitSystem(envs) ==
    /\ env \in envs
    /\ now = 1
    /\ state = State0
    /\ file = NoFile
    /\ price = FromInt(100)
    /\ bal \in InitBals
    /\ mons = <<>>
    /\ last = NoLast
    /\ hist = [okBuyAt |-> 0, webCalls |-> 0, monCalls |-> 0]
    /\ sz = NoSz
    /\ nm = NoNm
    /\ pend = <<>>
    /\ boots = 0
    /\ lk = NoLk
    /\ poll = NoPoll

\* One request, from _position_lock taken to the reply, with _with_state's
\* save of the record.  The exchange's part is chosen only for a request that
\* reaches the exchange, and its script is kept only when an order call
\* read it.
\* One webhook request, the whole handler under _position_lock, while fewer
\* than n requests have been served.
WebhookUpTo(reqs, outs, n) ==
    /\ last.n < n
    /\ \E req \in reqs :
         \E out \in IF webhook(req, NoOut, env, state, bal, price, now).touched
                    THEN outs ELSE {NoOut} :
           \E r \in {webhook(req, out, env, state, bal, price, now)} :
             /\ state' = r.st
             /\ file' = IF r.saved THEN Saved(r.st) ELSE file
             /\ bal' = r.bal
             /\ mons' = mons \o r.started
             /\ last' = [n |-> last.n + 1, at |-> now, req |-> req,
                         out |-> IF r.attempts > 0 \/ r.reply.status = 503
                                 THEN out ELSE NoOut,
                         dup |-> last.n > 0 /\ last.req = req /\ last.at = now,
                         hadPosition |-> state.has_position,
                         sinceBuy |-> IF hist.okBuyAt = 0 THEN -1
                                      ELSE now - hist.okBuyAt,
                         fundsOk |-> req.signal = "BUY" /\ FundsOk(req, bal),
                         sizeOk |-> req.signal = "BUY" /\ SizeOk(req, env, price),
                         reply |-> r.reply, attempts |-> r.attempts,
                         placed |-> r.placed, recorded |-> r.recorded,
                         touched |-> r.touched, started |-> Len(r.started),
                         changed |-> r.st # state]
             /\ hist' = [hist EXCEPT
                           !.okBuyAt = IF req.signal = "BUY" /\ r.reply.status = 200
                                          /\ r.saved
                                       THEN now ELSE @,
                           !.webCalls = @ + r.attempts]
             /\ UNCHANGED <<env, now, price, sz, nm,
                   pend, boots, lk, poll>>

Webhook(reqs, outs) == WebhookUpTo(reqs, outs, MaxReq)

\* One pass of a running monitor's loop; a ticker fetch that fails leaves
\* everything as it is until the next pass.
MonitorPoll ==
    \E i \in 1..Len(mons), fetched \in BOOLEAN, outcome \in {"ok", "net"} :
        /\ mons[i].alive
        /\ IF ~fetched
           THEN UNCHANGED <<state, file, bal, mons, hist>>
           ELSE LET r == MonitorStep(mons[i], env, bal, price, outcome)
                    st2 == [state EXCEPT !.has_position = FALSE]
                IN  /\ mons' = [mons EXCEPT ![i] = r.m]
                    /\ bal' = r.sell.bal
                    /\ state' = IF r.closed THEN st2 ELSE state
                    /\ file' = IF r.closed THEN Saved(st2) ELSE file
                    /\ hist' = [hist EXCEPT !.monCalls = @ + r.sell.attempts]
        /\ UNCHANGED <<env, now, price, last, sz, nm,
                   pend, boots, lk, poll>>

Tick ==
    /\ now < MaxTime
    /\ now' = now + 1
    /\ UNCHANGED <<env, state, file, price, bal, mons, last, hist, sz, nm,
                   pend, boots, lk, poll>>

PriceMove(prices) ==
    /\ price' \in prices \ {price}
    /\ UNCHANGED <<env, now, state, file, bal, mons, last, hist, sz, nm,
                   pend, boots, lk, poll>>

Init == InitSystem({EnvLive, EnvDry})

Next == Webhook(Requests, Outs) \/ MonitorPoll \/ Tick \/ PriceMove(Prices)

Spec == Init /\ [][Next]_vars

(***************************************************************************)
(* The sizer alone: _compute_base_qty_for_quote applied once to a quote    *)
(* amount, a ticker and a market.                                          *)
(***************************************************************************)
SizingQuotes == {FromInt(1), FromInt(5), FromInt(10), FromInt(15), FromInt(55)}

SizingTickers ==
    {TickerOf(FromInt(k)) : k \in {3, 25, 99, 100}}
    \cup {TickerOf(Zero), [TickerOf(FromInt(100)) EXCEPT !.last = Zero]}

\* Markets: with limits and three decimals; one decimal and no limits; a
\* minimum amount worth more than 200 in quote; not listed; a lot size in
\* place of a precision; no step at all.
MarketTenths ==
    [known |-> TRUE, amount_min |-> Zero, cost_min |-> Zero,
     has_precision |-> TRUE, precision |-> 1, lot |-> Zero]

MarketAbsurd ==
    [known |-> TRUE, amount_min |-> FromInt(10), cost_min |-> FromInt(5),
     has_precision |-> TRUE, precision |-> 2, lot |-> Zero]

MarketUnknown == [Market0 EXCEPT !.known = FALSE]

MarketLot ==
    [known |-> TRUE, amount_min |-> Dec(1, 1), cost_min |-> FromInt(1),
     has_precision |-> FALSE, precision |-> 0, lot |-> Dec(5, 2)]

MarketNoStep == [MarketLot EXCEPT !.lot = Zero]

SizingMarkets ==
    {Market0, MarketTenths, MarketAbsurd, MarketUnknown, MarketLot, MarketNoStep}

InitSizing ==
    /\ env = EnvLive
    /\ now = 1
    /\ state = State0
    /\ file = NoFile
    /\ price = FromInt(100)
    /\ bal \in InitBals
    /\ mons = <<>>
    /\ last = NoLast
    /\ hist = [okBuyAt |-> 0, webCalls |-> 0, monCalls |-> 0]
    /\ sz \in {[quote |-> q, ticker |-> t, market |-> m, done |-> FALSE,
                res |-> SizingFail("", Zero, Zero)] :
               q \in SizingQuotes, t \in SizingTickers, m \in SizingMarkets}
    /\ nm = NoNm
    /\ pend = <<>>
    /\ boots = 0
    /\ lk = NoLk
    /\ poll = NoPoll

SizeCall ==
    /\ ~sz.done
    /\ sz' = [sz EXCEPT !.done = TRUE,
                        !.res = _compute_base_qty_for_quote(sz.ticker, sz.market,
                                                            sz.quote)]
    /\ UNCHANGED <<env, now, state, file, price, bal, mons, last, hist, nm,
                 pend, boots, lk, poll>>

NextSizing == SizeCall

SpecSizing == InitSizing /\ [][NextSizing]_vars

(***************************************************************************)
(* The symbol normaliser on its own: an input string and a configured base *)
(* are drawn, the function is applied, and applied again to its result.    *)
(***************************************************************************)
MaxSymLen == 3

NormAlphabet == {"x", "T", "/", "-", ":"}

ShortSymbols == UNION {[1..n -> NormAlphabet] : n \in 0..MaxSymLen}

NamedSymbols ==
    { <<"B", "T", "C", "U", "S", "D", "T">>,
      <<"b", "t", "c", "-", "u", "s", "d", "t">>,
      <<"X", "B", "T", "/", "E", "U", "R">>,
      <<"x", "b", "t", "e", "u", "r">>,
      <<"B", "T", "C", ":", "U", "S", "D", "T">>,
      <<"A", "/", "B", "/", "C">>,
      <<"U", "S", "D", "T">>,
      <<"E", "T", "H", "B", "T", "C">>,
      <<"b", "t", "c", "/", "u", "s", "d">>,
      <<"x", "-", "y", "-", "z">>,
      <<"e", "t", "h", "u", "s", "d", "c">>,
      <<"B", "T", "C", "/", "U", "S", "D", "T">> }

\* BASE_SYMBOL as shipped, and Kraken's own name for the same asset.
BaseSymbols == {<<"B", "T", "C">>, <<"X", "B", "T">>}

InitNorm ==
    /\ env = EnvLive
    /\ now = 1
    /\ state = State0
    /\ file = NoFile
    /\ price = FromInt(100)
    /\ bal \in InitBals
    /\ mons = <<>>
    /\ last = NoLast
    /\ hist = [okBuyAt |-> 0, webCalls |-> 0, monCalls |-> 0]
    /\ sz = NoSz
    /\ nm \in {[NoNm EXCEPT !.base_symbol = b, !.input = s] :
               b \in BaseSymbols, s \in ShortSymbols \cup NamedSymbols}
    /\ pend = <<>>
    /\ boots = 0
    /\ lk = NoLk
    /\ poll = NoPoll

NormCall ==
    /\ nm.stage = 0
    /\ nm' = [nm EXCEPT !.stage = 1,
                        !.r1 = _normalize_to_ccxt_symbol(
                                   nm.input, SymbolDefault(nm.base_symbol))]
    /\ UNCHANGED <<env, now, state, file, price, bal, mons, last, hist, sz,
                 pend, boots, lk, poll>>

NormAgain ==
    /\ nm.stage = 1
    /\ nm.r1.exc = ""
    /\ nm' = [nm EXCEPT !.stage = 2,
                        !.r2 = _normalize_to_ccxt_symbol(
                                   nm.r1.out, SymbolDefault(nm.base_symbol))]
    /\ UNCHANGED <<env, now, state, file, price, bal, mons, last, hist, sz,
                 pend, boots, lk, poll>>

NextNorm == NormCall \/ NormAgain

SpecNorm == InitNorm /\ [][NextNorm]_vars

(***************************************************************************)
(* The life of a position: webhook requests, the monitor threads with the  *)
(* file write of _save_state as a step of its own (lines 115-116 run       *)
(* outside _state_lock), and restarts of the process.                      *)
(***************************************************************************)
MaxLifeReq == 3

MaxBoots == 1

LifeRequests == {BuyDefault, SellAll}

Running(ms) == {i \in 1..Len(ms) : ms[i].alive}

\* One pass of a monitor's loop (lines 304-347).  A pass that closes updates
\* the record under _state_lock and serialises it (lines 353-355, 113-114);
\* the file is written later, outside the lock.
MonitorLoop ==
    \E i \in 1..Len(mons), fetched \in BOOLEAN, outcome \in {"ok", "net"} :
        /\ mons[i].alive
        /\ IF ~fetched
           THEN UNCHANGED <<state, bal, mons, hist, pend>>
           ELSE \E r \in {MonitorStep(mons[i], env, bal, price, outcome)} :
                  \E st2 \in {IF r.closed
                              THEN [state EXCEPT !.has_position = FALSE]
                              ELSE state} :
                    /\ mons' = [mons EXCEPT ![i] = r.m]
                    /\ bal' = r.sell.bal
                    /\ state' = st2
                    /\ pend' = IF r.closed THEN Append(pend, st2) ELSE pend
                    /\ hist' = [hist EXCEPT !.monCalls = @ + r.sell.attempts]
        /\ UNCHANGED <<env, now, file, price, last, sz, nm, boots, lk, poll>>

\* with open(STATE_FILE, "w") ...: a serialised record reaches the file.  The
\* writers are different threads, so the writes land in any order.
MonitorWrite ==
    \E k \in 1..Len(pend) :
        /\ file' = Saved(pend[k])
        /\ pend' = [j \in 1..(Len(pend) - 1) |-> IF j < k THEN pend[j] ELSE pend[j + 1]]
        /\ UNCHANGED <<env, now, state, price, bal, mons, last, hist, sz, nm,
                       boots, lk, poll>>

\* The process stops and is started again: every thread is gone, and the
\* module's boot code (lines 624-625) runs _load_state with RESTORE_ON_START
\* at its default.
Restart ==
    /\ boots < MaxBoots
    /\ boots' = boots + 1
    /\ state' = IF file.exists THEN file.data ELSE State0
    /\ mons' = <<>>
    /\ pend' = <<>>
    /\ UNCHANGED <<env, now, file, price, bal, last, hist, sz, nm, lk, poll>>

InitLife == InitSystem({EnvLive})

NextLife ==
    \/ WebhookUpTo(LifeRequests, {NoOut}, MaxLifeReq)
    \/ MonitorLoop
    \/ MonitorWrite
    \/ Restart
    \/ Tick
    \/ PriceMove(Prices)

SpecLife == InitLife /\ [][NextLife]_vars

(***************************************************************************)
(* One position under its trailing monitor: a single BUY at either         *)
(* confidence tier, then price moves and the passes of the monitor.        *)
(***************************************************************************)
MaxTrailReq == 1

BuyConf3 == Req("object", GoodCreds, "BUY", 3, Zero, FALSE, NoQty)

TrailRequests == {BuyDefault, BuyConf3}

TrailPrices == {FromInt(k) : k \in 99..102}

InitTrail == InitSystem({EnvLive})

NextTrail ==
    \/ WebhookUpTo(TrailRequests, {NoOut}, MaxTrailReq)
    \/ MonitorLoop
    \/ MonitorWrite
    \/ PriceMove(TrailPrices)

SpecTrail == InitTrail /\ [][NextTrail]_vars

(***************************************************************************)
(* The webhook handler step by step, on the request threads of one worker  *)
(* process: a request arrives, its thread enters "with _position_lock"     *)
(* (line 393), runs the handler on what it reads there, and leaves the     *)
(* block by a return or an exception.                                      *)
(***************************************************************************)
LockRequests == {BuyDefault, SellAll, BuyBadSecret, ArrayBadSecret}

\* A thread that takes the lock whatever its state.
LockIgnored(l) == TRUE

\* threading.Lock.acquire: the lock is taken only when nobody holds it.
LockFree(l) == l.owner = 0

\* A request is handed to a thread; the thread reaches the with statement.
Arrive(t, reqs) ==
    /\ lk.pc[t] = "idle"
    /\ \E req \in reqs :
         lk' = [lk EXCEPT !.pc[t] = "wait", !.req[t] = req]
    /\ UNCHANGED <<env, now, state, file, price, bal, mons, last, hist, sz, nm,
                   pend, boots, poll>>

\* _position_lock.__enter__: the thread blocks until the lock is free, then
\* holds it and starts on the record and the balances as they are now.
Acquire(t) ==
    /\ lk.pc[t] = "wait"
    /\ LockFree(lk)
    /\ lk' = [lk EXCEPT !.owner = t, !.pc[t] = "in",
                        !.seen[t] = [st |-> state, bal |-> bal]]
    /\ UNCHANGED <<env, now, state, file, price, bal, mons, last, hist, sz, nm,
                   pend, boots, poll>>

\* The body of the handler runs to its return or to one of its except
\* clauses (lines 394-622), and _position_lock.__exit__ releases the lock.
Leave(t) ==
    /\ lk.pc[t] = "in"
    /\ \E r \in {webhook(lk.req[t], NoOut, env, lk.seen[t].st, lk.seen[t].bal,
                         price, now)} :
         /\ state' = r.st
         /\ file' = IF r.saved THEN Saved(r.st) ELSE file
         /\ bal' = r.bal
         /\ mons' = mons \o r.started
         /\ lk' = [lk EXCEPT !.owner = 0, !.pc[t] = "done", !.reply[t] = r.reply]
    /\ UNCHANGED <<env, now, price, last, hist, sz, nm, pend, boots, poll>>

InitLock == InitSystem({EnvLive})

NextLock ==
    \/ \E t \in Threads : Arrive(t, LockRequests)
    \/ \E t \in Threads : Acquire(t)
    \/ \E t \in Threads : Leave(t)
    \/ PriceMove(Prices)

SpecLock == InitLock /\ [][NextLock]_vars

(***************************************************************************)
(* The split orders: one request at a time against every configuration of  *)
(* BUY_SPLIT_CHUNKS and SELL_SPLIT_CHUNKS (lines 85-87), live and dry, on   *)
(* two markets, with every pattern of accepted and refused orders.          *)
(***************************************************************************)
MaxChunks == 3
MaxSellChunks == 2
MaxChunkReq == 2

\* A market whose minimum amount costs a whole default order at the prices
\* of the model (0.1 BTC at 100 USDT).
MarketDear == [Market0 EXCEPT !.amount_min = Dec(1, 1)]

ChunkEnvs ==
    {[EnvLive EXCEPT !.BUY_SPLIT_CHUNKS = bc, !.SELL_SPLIT_CHUNKS = sc,
                     !.DRY_RUN = dry, !.market = mk] :
        bc \in 1..MaxChunks, sc \in 1..MaxSellChunks, dry \in BOOLEAN,
        mk \in {Market0, MarketDear}}

\* What the exchange answers to each order of a request, in the order of
\* submission: accepted, or refused with ccxt.InsufficientFunds.  A request
\* submits at most one order per BUY chunk, or one per SELL chunk and the
\* fallback.
ChunkScripts == [1..Max2(MaxChunks, MaxSellChunks + 1) -> {"ok", "insuf"}]

ChunkOuts == {[script |-> sc, readFail |-> "none"] : sc \in ChunkScripts}

ChunkRequests == {BuyDefault, SellAll}

InitChunks == InitSystem(ChunkEnvs)

NextChunks ==
    \/ WebhookUpTo(ChunkRequests, ChunkOuts, MaxChunkReq)
    \/ PriceMove(Prices)

SpecChunks == InitChunks /\ [][NextChunks]_vars

(***************************************************************************)
(* The monitor alone: _monitor_trailing started with arguments of the       *)
(* caller's choice on an open position, polled at prices that rise, fall,   *)
(* and are missing (zero or negative), with fetches that fail.              *)
(***************************************************************************)
WatchStops == {Dec(2, 3), Dec(5, 2), Dec(1, 1), Dec(5, 1)}

WatchConfs == {2, 3}

WatchPrices ==
    {Zero, FNeg(One), FromInt(94), FromInt(99), FromInt(100), FromInt(101),
     FromInt(102)}

WatchQty == Dec(1, 1)

WatchOpen ==
    [State0 EXCEPT !.has_position = TRUE, !.last_buy_ts = 1,
                   !.last_entry_price = FromInt(100), !.last_qty = WatchQty]

InitWatch ==
    /\ env = EnvLive
    /\ now = 1
    /\ state = WatchOpen
    /\ file = Saved(WatchOpen)
    /\ price = FromInt(100)
    /\ bal \in InitBals
    /\ \E conf \in WatchConfs, sl \in WatchStops :
         /\ mons = <<StartMonitor(SYMBOL_DEFAULT, WatchQty, FromInt(100), conf, sl)>>
         /\ poll = [NoPoll EXCEPT !.base_sl_pct = sl]
    /\ last = NoLast
    /\ hist = [okBuyAt |-> 1, webCalls |-> 1, monCalls |-> 0]
    /\ sz = NoSz
    /\ nm = NoNm
    /\ pend = <<>>
    /\ boots = 0
    /\ lk = NoLk

\* One iteration of a monitor's loop, with _with_state (lines 352-357)
\* saving the record when the pass closes the position.
MonitorWatched ==
    \E i \in 1..Len(mons), fetched \in BOOLEAN, outcome \in {"ok", "net"} :
        /\ mons[i].alive
        /\ \E r \in {MonitorTry(mons[i], env, bal, price, outcome, fetched)} :
             \E st2 \in {IF r.closed THEN [state EXCEPT !.has_position = FALSE]
                         ELSE state} :
               /\ mons' = [mons EXCEPT ![i] = r.m]
               /\ bal' = r.sell.bal
               /\ state' = st2
               /\ file' = IF r.closed THEN Saved(st2) ELSE file
               /\ hist' = [hist EXCEPT !.monCalls = @ + r.sell.attempts]
               /\ poll' = [poll EXCEPT
                             !.seen = TRUE, !.i = i, !.fetched = fetched,
                             !.lastp = OrF(TickerOf(price).last, TickerOf(price).close),
                             !.attempts = r.sell.attempts,
                             !.was = [m |-> mons[i], st |-> state, file |-> file,
                                      bal |-> bal]]
        /\ UNCHANGED <<env, now, price, last, sz, nm, pend, boots, lk>>

NextWatch ==
    \/ MonitorWatched
    \/ PriceMove(WatchPrices)

SpecWatch == InitWatch /\ [][NextWatch]_vars

(***************************************************************************)
(* Properties.                                                             *)
(***************************************************************************)
\* The last request was a BUY that passed authentication and reached the BUY
\* branch of the handler.
BuyReached ==
    /\ last.n > 0
    /\ last.req.body = "object"
    /\ ~Unauthorized(env, last.req)
    /\ last.req.signal = "BUY"
    /\ env.keys_ok

\* C1: a webhook BUY that finds has_position = TRUE is rejected: no order
\* placement call, no exchange call at all, no monitor started, the position
\* record unchanged; once authenticated it is answered 200 with the reason
\* buy_cooldown or position_already_open.
C1_BuyRejectedWhileOpen ==
    (last.n > 0 /\ last.req.signal = "BUY" /\ last.hadPosition) =>
        /\ last.attempts = 0
        /\ ~last.touched
        /\ last.started = 0
        /\ ~last.changed
        /\ ~(last.reply.status = 200 /\ last.reply.reason = "")
        /\ BuyReached =>
              /\ last.reply.status = 200
              /\ last.reply.reason \in {"buy_cooldown", "position_already_open"}

\* A BUY arrived after the cooldown while the position was still open.
C1_Witness ==
    /\ BuyReached
    /\ last.hadPosition
    /\ last.reply.reason = "position_already_open"
    /\ Len(mons) = 1

\* C2: a BUY arriving less than BUY_COOL_SEC after the last BUY that
\* succeeded is answered 200 with the reason buy_cooldown and the remaining
\* wait, makes no exchange call and leaves the record (last_buy_ts with it)
\* as it was.
C2_CooldownRejects ==
    (BuyReached /\ last.sinceBuy >= 0 /\ last.sinceBuy < BUY_COOL_SEC) =>
        /\ last.reply.status = 200
        /\ last.reply.reason = "buy_cooldown"
        /\ last.reply.wait = BUY_COOL_SEC - last.sinceBuy
        /\ last.reply.wait > 0
        /\ last.attempts = 0
        /\ ~last.touched
        /\ ~last.changed
        /\ state.last_buy_ts = last.at - last.sinceBuy

\* A BUY one tick before the cooldown's end, the position closed meanwhile.
C2_Witness ==
    /\ BuyReached
    /\ last.sinceBuy = BUY_COOL_SEC - 1
    /\ ~last.hadPosition
    /\ last.reply.reason = "buy_cooldown"

\* C3 as stated: a BUY arriving BUY_COOL_SEC + 1 after a BUY that succeeded,
\* with enough quote balance and a legal size, is accepted and an order is
\* placed.
C3_AcceptedAfterCooldown ==
    (BuyReached /\ last.sinceBuy = BUY_COOL_SEC + 1 /\ last.fundsOk /\ last.sizeOk) =>
        /\ last.reply.status = 200
        /\ last.reply.reason = ""
        /\ last.placed >= 1

\* C3, amended: such a BUY is never rejected for cooldown.  While the
\* position is still open it is rejected with position_already_open and
\* nothing is placed; once the position is closed, with enough quote, a
\* legal size and an exchange that answers, it is accepted, the record is
\* set open at the arrival time, and every chunk is placed, or in a dry run
\* recorded without a placement.
C3_AfterCooldown ==
    (BuyReached /\ last.sinceBuy = BUY_COOL_SEC + 1) =>
        /\ last.reply.reason # "buy_cooldown"
        /\ last.hadPosition =>
              /\ last.reply.reason = "position_already_open"
              /\ last.attempts = 0
        /\ (~last.hadPosition /\ last.fundsOk /\ last.sizeOk /\ last.out = NoOut) =>
              /\ last.reply.status = 200
              /\ last.reply.reason = ""
              /\ last.recorded >= 1
              /\ last.placed = (IF env.DRY_RUN THEN 0 ELSE last.recorded)
              /\ last.changed

\* The monitor closed the position, and the BUY after the cooldown bought.
C3_Witness ==
    /\ BuyReached
    /\ last.sinceBuy = BUY_COOL_SEC + 1
    /\ ~last.hadPosition
    /\ last.placed >= 1
    /\ state.has_position
    /\ state.last_buy_ts = last.at

\* C4: a payload delivered twice within the dedup window leads to one order
\* submission: the second delivery submits nothing.
C4_DuplicateSubmitsNothing ==
    last.dup => last.attempts = 0

\* C5: with DRY_RUN set no order placement call is ever made, by the webhook
\* or by the trailing monitor.
C5_DryRunPlacesNothing ==
    env.DRY_RUN => (hist.webCalls = 0 /\ hist.monCalls = 0)

\* C6: when the order submission fails twice with a network error and would
\* succeed the third time, the request ends with exactly one order placed.
C6_RetriedToOneOrder ==
    (last.n > 0 /\ last.attempts > 0 /\ last.out.script = <<"net", "net", "ok">>) =>
        last.placed = 1

\* The causes of a policy skip: cooldown, open position, an amount below the
\* minimum, too little quote, a refusal for insufficient funds.
PolicySkip ==
    \/ BuyReached /\ last.sinceBuy >= 0 /\ last.sinceBuy < BUY_COOL_SEC
    \/ BuyReached /\ last.hadPosition
    \/ BuyReached /\ ~last.sizeOk
    \/ last.reply.error \in {"not_enough_quote", "no_sellable_base"}
    \/ last.attempts > 0 /\ last.out.script[last.attempts] = "insuf"

\* C7: a request that ends in a policy skip is answered 200 with a reason,
\* never with a 4xx or 5xx status.
C7_PolicySkipIs200 ==
    (last.n > 0 /\ PolicySkip) =>
        (last.reply.status = 200 /\ last.reply.reason # "")

\* An exchange call of the last request failed with a network error.
NetworkFailed ==
    /\ last.n > 0
    /\ \/ last.out.readFail # "none"
       \/ last.attempts > 0 /\ last.out.script[1] = "net"

\* C8: a request whose exchange calls fail with a network error is answered
\* as a skip with the reason network_error, never with a 5xx status.
C8_NetworkErrorIsSkip ==
    NetworkFailed =>
        (last.reply.status = 200 /\ last.reply.reason = "network_error")

\* C9: with a secret configured, a request whose supplied secret differs is
\* answered 401, makes no exchange call, starts no monitor and leaves the
\* position record unchanged.
C9_BadSecretIs401 ==
    (last.n > 0 /\ env.WEBHOOK_SECRET # ""
       /\ SuppliedToken(last.req) # env.WEBHOOK_SECRET) =>
        /\ last.reply.status = 401
        /\ ~last.touched
        /\ last.attempts = 0
        /\ last.started = 0
        /\ ~last.changed

\* C10: every sizing call that returns a quantity returns one that is
\* positive, worth at least the market's minimum notional, at least the
\* market's minimum amount, and an exact multiple of the quantity step:
\* floor(qty / step) * step = qty.
C10_SizedQuantityLegal ==
    (sz.done /\ sz.res.ok) =>
        /\ FLt(Zero, sz.res.qty)
        /\ FLe(sz.market.cost_min, FMul(sz.res.qty, sz.res.price))
        /\ FLe(sz.market.amount_min, sz.res.qty)
        /\ _round_floor(sz.res.qty, _amount_step_from_market(sz.market)) = sz.res.qty

\* The smallest notional the sizer accepts on a market at a price: the larger
\* of the minimum cost and the minimum amount valued at the price, with the
\* fee buffer on top (the figure the sizing errors name).
MinNotionalNeeded(info, px) ==
    FMul(FMax(info.min_cost, FMul(info.min_amount, px)),
         FAdd(One, FEE_BUFFER_PCT))

\* C11: a sizing call whose target notional is below the minimum notional
\* achievable on the market (fee buffer included) fails with a sizing error
\* that names the minimum required notional; it never returns a quantity.
C11_BelowMinimumFails ==
    (/\ sz.done
     /\ sz.market.known
     /\ FLt(Zero, TickerPrice(sz.ticker))
     /\ FLt(sz.quote,
            MinNotionalNeeded(_get_min_trade_info(sz.market, TickerPrice(sz.ticker)),
                              TickerPrice(sz.ticker)))) =>
        (~sz.res.ok /\ FLt(Zero, sz.res.need))

\* A canonical symbol: one "/" between a non-empty base and a non-empty
\* quote, both made of upper-case letters only.
IsCanonical(out) ==
    /\ Cardinality(Slashes(out)) = 1
    /\ out[1] # "/"
    /\ out[Len(out)] # "/"
    /\ \A i \in 1..Len(out) :
          out[i] = "/" \/ \E k \in 1..Len(UpperCase) : UpperCase[k] = out[i]

\* C12: symbol normalisation never throws; for every input string (any case,
\* separators "-", ":" or "/", any number of separators, the empty string)
\* it returns a canonical BASE/QUOTE symbol or the configured default.
C12_NormalizeNeverThrows ==
    (nm.stage >= 1) =>
        /\ nm.r1.exc = ""
        /\ \/ IsCanonical(nm.r1.out)
           \/ nm.r1.out = SymbolDefault(nm.base_symbol)

\* C13: symbol normalisation is idempotent: on every input on which it
\* returns, normalising the result again returns the same result.
C13_NormalizeIdempotent ==
    (nm.stage = 2) => (nm.r2 = nm.r1)

\* C14: after a restart with a snapshot that records an open position, a
\* trailing monitor supervises that position again.
C14_MonitoredAfterRestart ==
    (boots > 0 /\ state.has_position) => Running(mons) # {}

\* A pass of a monitor thread's loop that had an effect: a monitor changed,
\* no request was served and the process was not restarted.
MonitorStepped == mons' # mons /\ last' = last /\ boots' = boots

\* C15: after a webhook SELL has closed the position, a monitor that is still
\* running submits no closing order of its own: no position is closed by two
\* closing orders.
C15_SellStopsMonitor ==
    [][(/\ MonitorStepped
        /\ last.req.signal = "SELL"
        /\ last.reply.status = 200
        /\ ~state.has_position) => hist'.monCalls = hist.monCalls]_vars

\* C16: at any instant at most one trailing monitor is running.
C16_OneMonitor == Cardinality(Running(mons)) <= 1

\* C18: when the closing order of a monitor fails, the record stays open and
\* the monitor keeps running, so that the close is tried again.
C18_FailedCloseRetried ==
    [][(/\ MonitorStepped
        /\ state.has_position
        /\ hist'.monCalls > hist.monCalls
        /\ bal' = bal) => (state'.has_position /\ Running(mons') = Running(mons))]_vars

\* C19: whenever no write of the record is pending, the snapshot in the file
\* equals the record in memory.
C19_SnapshotEqualsRecord ==
    (pend = <<>> /\ file.exists) => file.data = state

\* The stop rule of a monitor at a price: the initial hard stop is reached,
\* or the monitor is activated (now or before) and the price is at or under
\* the larger of the hard stop and the high-water mark less the gap.
Activates(m, p, params) ==
    m.activated \/ FLe(FMul(m.entry_price, FAdd(One, params[1])), p)

StopHit(m, p, params) ==
    \/ FLe(p, m.initial_stop)
    \/ /\ Activates(m, p, params)
       /\ FLe(p, FMax(m.initial_stop,
                      FMul(FMax(m.max_price, p), FSub(One, params[2]))))

\* What a pass must leave behind: it closes and sends one order exactly when
\* the stop is hit; otherwise it sends nothing and records the activation
\* and the high-water mark.
PassObeys(m, r, b, hit, active, p) ==
    /\ r.closed = hit
    /\ r.m.alive = ~hit
    /\ r.sell.attempts = (IF hit THEN 1 ELSE 0)
    /\ ~hit => /\ r.sell.bal = b
               /\ r.m.activated = active
               /\ r.m.max_price = (IF active THEN FMax(m.max_price, p) ELSE m.max_price)

\* C17: on every pass with a price above zero a running monitor sends a
\* closing order and closes exactly when the price is at or under the hard
\* stop, or it is activated (in this pass or before) and the price is at or
\* under max(hard stop, high-water mark x (1 - gap)); in every other pass it
\* sends no order.  Stated of the pass each running monitor makes at the
\* current price, and of every step a monitor takes.
C17_StopRule ==
    /\ [](\A i \in Running(mons), o \in {"ok", "net"} :
            PassObeys(mons[i], MonitorStep(mons[i], env, bal, price, o), bal,
                      StopHit(mons[i], price, _trail_params(mons[i].conf)),
                      Activates(mons[i], price, _trail_params(mons[i].conf)),
                      price))
    /\ [][MonitorStepped =>
            \A i \in 1..Len(mons) :
                (mons'[i] # mons[i]) =>
                    /\ mons'[i].alive
                         = ~StopHit(mons[i], price, _trail_params(mons[i].conf))
                    /\ hist'.monCalls - hist.monCalls
                         = (IF mons'[i].alive THEN 0 ELSE 1)
                    /\ state'.has_position = (state.has_position /\ mons'[i].alive)]_vars

\* A monitor that was activated has closed its position with one order.
C17_Witness ==
    \E i \in 1..Len(mons) :
        /\ ~mons[i].alive
        /\ mons[i].activated
        /\ FLt(mons[i].entry_price, mons[i].max_price)
        /\ hist.monCalls = 1
        /\ ~state.has_position

\* The threads inside the with block of the webhook.
Inside == {t \in Threads : lk.pc[t] = "in"}

\* C20: at any instant at most one webhook decision is in flight: the thread
\* inside the block holds the lock, what it read on entry (record and
\* balances) has not been changed by another request, and the lock is free
\* again whenever no thread is inside, whichever way the last one left.
C20_OneDecisionInFlight ==
    /\ Cardinality(Inside) <= 1
    /\ (lk.owner = 0) = (Inside = {})
    /\ \A t \in Inside :
          /\ lk.owner = t
          /\ lk.seen[t] = [st |-> state, bal |-> bal]

\* A request has left the block by an exception (answered 500), another by
\* the early rejection of its secret (401), after a BUY was filled.
C20_Witness ==
    /\ Inside = {}
    /\ lk.owner = 0
    /\ state.has_position
    /\ \E t, u \in Threads :
          /\ lk.pc[t] = "done" /\ lk.reply[t].status = 200
          /\ lk.pc[u] = "done" /\ lk.reply[u].status \in {401, 500}

\* C21: a SELL request closes the position record (has_position false,
\* last_qty 0) only when a closing sell order was accepted, or in a dry run
\* where the fill is fabricated; when every sell order is refused the record
\* stays open.
C21_ClosedOnlyWhenSold ==
    (/\ last.n > 0
     /\ last.req.signal = "SELL"
     /\ last.hadPosition
     /\ ~state.has_position)
    => (last.placed > 0 \/ env.DRY_RUN)

\* C22: when a buy order of a BUY request was accepted, the request leaves
\* the record open with the time of the purchase and a positive quantity, and
\* with a monitor started when trailing is enabled, also when a later chunk
\* of the same request fails.
C22_BoughtIsRecorded ==
    (/\ last.n > 0
     /\ last.req.signal = "BUY"
     /\ last.placed > 0)
    => (/\ state.has_position
        /\ state.last_buy_ts = last.at
        /\ FLt(Zero, state.last_qty)
        /\ (env.TRAILING_ENABLED => last.started = 1))

\* C23: an order refused with a non-retryable error (ccxt.InsufficientFunds)
\* is the last order the request submits: no further order is sent in the
\* same BUY or SELL request, whatever the chunk configuration.
C23_RefusalEndsRequest ==
    (last.n > 0 /\ last.req.signal \in {"BUY", "SELL"})
    => \A k \in 1..last.attempts :
         last.out.script[k] = "insuf" => k = last.attempts

\* C26: the orders of a BUY request cost together (quantity times price) at
\* most quote_to_use, the requested quote capped by the free quote above
\* QUOTE_RESERVE, for every chunk count and also when the sizer raises a
\* chunk to the market minimum.  With funds for the requested quote
\* (last.fundsOk) quote_to_use is the requested quote.
C26_NotionalWithinQuote ==
    (/\ last.n > 0
     /\ last.req.signal = "BUY"
     /\ last.reply.status = 200
     /\ last.changed
     /\ last.fundsOk)
    => FLe(FMul(state.last_qty, state.last_entry_price),
           OrF(last.req.quote, FIXED_QUOTE_PER_TRADE))

\* The trailing stop of a monitor as line 331 computes it.
TrailStop(m) ==
    FMax(m.initial_stop, FMul(m.max_price, FSub(One, _trail_params(m.conf)[2])))

\* C24: within one run of a monitor the stop only ratchets upward.  The
\* initial stop is never below entry * (1 - MAX_SL_PCT), whatever stop
\* percent the caller supplied, and it never moves; over every pass an
\* activated monitor stays activated, the high-water mark does not decrease,
\* and the trailing stop does not decrease and is not below the initial stop.
C24_StopRatchets ==
    /\ \A i \in 1..Len(mons) :
         /\ FLe(FMul(mons[i].entry_price, FSub(One, MAX_SL_PCT)),
                mons[i].initial_stop)
         /\ FLe(mons[i].initial_stop, TrailStop(mons[i]))
    /\ poll.seen =>
         /\ poll.was.m.activated => mons[poll.i].activated
         /\ FLe(poll.was.m.max_price, mons[poll.i].max_price)
         /\ FLe(TrailStop(poll.was.m), TrailStop(mons[poll.i]))
         /\ mons[poll.i].initial_stop = poll.was.m.initial_stop

\* A monitor whose supplied stop percent was above MAX_SL_PCT has activated
\* and raised its high-water mark and its trailing stop above the start.
C24_Witness ==
    /\ poll.seen
    /\ FLt(MAX_SL_PCT, poll.base_sl_pct)
    /\ mons[poll.i].activated
    /\ FLt(poll.was.m.max_price, mons[poll.i].max_price)
    /\ FLt(TrailStop(poll.was.m), TrailStop(mons[poll.i]))

\* C25: a pass whose price fetch fails, or returns a price that is not
\* positive, changes nothing: the monitor (activated flag, high-water mark,
\* stops) is as it was and still alive, the record, the file and the balances
\* are unchanged and no order was sent.
C25_FailedPollChangesNothing ==
    (poll.seen /\ (~poll.fetched \/ FLe(poll.lastp, Zero)))
    => /\ mons[poll.i] = poll.was.m
       /\ mons[poll.i].alive
       /\ state = poll.was.st
       /\ file = poll.was.file
       /\ bal = poll.was.bal
       /\ poll.attempts = 0

\* An activated monitor has read a price that is not positive.
C25_Witness ==
    /\ poll.seen
    /\ poll.fetched
    /\ FLe(poll.lastp, Zero)
    /\ poll.was.m.activated

====
